---- MODULE Spec2Model ----
(***************************************************************************)
(* Translation-resolution pipeline of the LINE translation bot.            *)
(*                                                                         *)
(* Revision "main"  : src/server.js:1-252  (Gemini + Google fallback,      *)
(*                    forEach dispatch, filter A/B/C).                     *)
(* Revision "retry" : src/unnamed/part_002:335-612 (same pipeline, Gemini  *)
(*                    retry loop, more filter markers).                    *)
(* Revision "openai": src/unnamed/part_000 (one OpenAI call, Promise.all    *)
(*                    dispatch).                                           *)
(* Revision "flat"  : src/unnamed/part_003 (Gemini answers one flat JSON    *)
(*                    object, detection inside translateWithGoogle, a      *)
(*                    sentinel reply when the filter keeps nothing).       *)
(* Revision "seq"   : src/server.js:254-447 (the webhook route itself      *)
(*                    loops over the events and awaits each step).         *)
(*                                                                         *)
(* A JavaScript string is a sequence of one-character strings.  The CJK    *)
(* characters of the source are written by code point ("U5931" is U+5931)  *)
(* and the flag emoji by name ("FLAG_TW").                                 *)
(***************************************************************************)
EXTENDS Integers, Sequences, FiniteSets, TLC

VARIABLES rev, apiKey, events, wpc, acked, h, errlog, transportError

vars == <<rev, apiKey, events, wpc, acked, h, errlog, transportError>>

(***************************************************************************)
(* Bounds of the model.                                                    *)
(***************************************************************************)
MaxEvents == 2

(***************************************************************************)
(* JavaScript values.  k is the type tag, s the characters of a string.    *)
(* "num" stands for a non-zero number and "obj" for a plain object: both   *)
(* are truthy and have neither includes() nor toLowerCase().               *)
(***************************************************************************)
Str(s) == [k |-> "str", s |-> s]
JNull == [k |-> "null", s |-> <<>>]
JUndef == [k |-> "undef", s |-> <<>>]
JNum == [k |-> "num", s |-> <<>>]
JObj == [k |-> "obj", s |-> <<>>]

IsStr(v) == v.k = "str"
Truthy(v) == IF v.k = "str" THEN v.s # <<>> ELSE v.k \in {"num", "obj"}

(***************************************************************************)
(* Characters.                                                             *)
(***************************************************************************)
UpperLetters == <<"A","B","C","D","E","F","G","H","I","J","K","L","M",
                  "N","O","P","Q","R","S","T","U","V","W","X","Y","Z">>
LowerLetters == <<"a","b","c","d","e","f","g","h","i","j","k","l","m",
                  "n","o","p","q","r","s","t","u","v","w","x","y","z">>
Digits == {"0","1","2","3","4","5","6","7","8","9"}
\* CJK letters used by the placeholders and by the sample translations
CJKLetters == {"U5931", "U6557", "U932F", "U8AA4", "U7FFB", "U8B6F",
               "U5099", "U63F4", "U672A", "U8A2D", "U5B9A", "U9023",
               "U7DDA", "U4F60", "U597D"}
WhiteSpace == {" ", "LF", "TAB"}

Range(f) == {f[i] : i \in DOMAIN f}

\* the lower-case letter of each upper-case letter
LowerOf ==
  [c \in Range(UpperLetters) |->
     LowerLetters[CHOOSE i \in 1..26 : UpperLetters[i] = c]]

\* String.prototype.toLowerCase, one character
LowerChar(c) == IF c \in DOMAIN LowerOf THEN LowerOf[c] ELSE c

\* the characters of the model that are \p{L} or \p{N}
LettersAndDigits ==
  Range(UpperLetters) \cup Range(LowerLetters) \cup Digits \cup CJKLetters

\* \p{L} or \p{N}
IsLetterOrDigit(c) == c \in LettersAndDigits

ToLowerCase(s) == [i \in 1..Len(s) |-> LowerChar(s[i])]

RECURSIVE TrimLeft(_)
TrimLeft(s) ==
  IF s # <<>> /\ Head(s) \in WhiteSpace THEN TrimLeft(Tail(s)) ELSE s

RECURSIVE TrimRight(_)
TrimRight(s) ==
  IF s # <<>> /\ s[Len(s)] \in WhiteSpace
  THEN TrimRight(SubSeq(s, 1, Len(s) - 1))
  ELSE s

\* String.prototype.trim
Trim(s) == TrimRight(TrimLeft(s))

\* String.prototype.includes
Includes(s, sub) ==
  \E i \in 0..(Len(s) - Len(sub)) : SubSeq(s, i + 1, i + Len(sub)) = sub

\* String.prototype.startsWith
StartsWith(s, p) == Len(p) <= Len(s) /\ SubSeq(s, 1, Len(p)) = p

\* str.toLowerCase().replace(/[^\p{L}\p{N}]/gu, "")
normalize(s) == SelectSeq(ToLowerCase(s), IsLetterOrDigit)

(***************************************************************************)
(* Configuration.                                                          *)
(***************************************************************************)
zhTW == <<"z","h","-","T","W">>
en == <<"e","n">>
id == <<"i","d">>

targetLangs == <<zhTW, en, id>>
LangSet == Range(targetLangs)

flagMap == [l \in LangSet |->
              IF l = zhTW THEN "FLAG_TW" ELSE IF l = en THEN "FLAG_US" ELSE "FLAG_ID"]

\* Failure placeholders written by the translators
GeminiLangFailed == <<"(","G","e","m","i","n","i"," ","U7FFB","U8B6F","U5931","U6557",")">>
GeminiError == <<"(","G","e","m","i","n","i"," ","U932F","U8AA4",")">>
NotConfigured == <<"(","U5099","U63F4","U672A","U8A2D","U5B9A",")">>
GoogleFailed == <<"(","G","o","o","g","l","e"," ","U5931","U6557",")">>
GoogleApiError == <<"(","G","o","o","g","l","e"," ","A","P","I"," ","U932F","U8AA4",")">>
ConnectionError == <<"(","U9023","U7DDA","U932F","U8AA4",")">>

\* Failure placeholders and the sentinel reply of the flat revision
FlatGeminiError ==
  <<"(","G","e","m","i","n","i"," ","A","P","I"," ","U932F","U8AA4",")">>
FlatGoogleNoText ==
  <<"(","G","o","o","g","l","e"," ","U7FFB","U8B6F","U932F","U8AA4",")">>
FlatGoogleNotOk ==
  <<"(","G","o","o","g","l","e"," ","U7FFB","U8B6F","U5931","U6557",")">>
FlatGoogleThrew == <<"(","G","o","o","g","l","e"," ","A","P","I"," ","U5931","U6557",")">>
Sentinel ==
  <<"U7121","U9700","U7FFB","U8B6F","U6216","U7FFB","U8B6F","U5931","U6557","U3002">>
FlatAuto == <<"a","u","t","o">>
GeminiMark == <<"(","G","e","m","i","n","i">>

\* Markers the filter looks for
MarkFailed == <<"(","U5931","U6557",")">>
MarkError == <<"(","U932F","U8AA4",")">>

(***************************************************************************)
(* What the backends can answer.                                           *)
(*                                                                         *)
(* A Gemini answer is either a rejected call (kind "error") or a text;     *)
(* the flag retryable tells that the message of the error the attempt ends *)
(* with, if it ends with one, includes 500, 503 or overloaded.  The        *)
(* text is a sequence of segments: "prose" (free text without braces),     *)
(* "ws" (white space), "fence_json" and "fence" (the markers ```json and   *)
(* ```), and "json" (the text of one JSON value, val being what JSON.parse *)
(* makes of it).  Of a parsed value, top is its type, detected_lang and tr  *)
(* the members detected_lang and translations (hasTr: translations is      *)
(* truthy) and flat the members named by the language codes themselves.    *)
(***************************************************************************)
Parsed(top, dl, hasTr, tr) ==
  [top |-> top, detected_lang |-> dl, hasTr |-> hasTr, tr |-> tr,
   flat |-> [l \in LangSet |-> JUndef]]

NoJson == Parsed("none", JUndef, FALSE, [l \in LangSet |-> JUndef])

Seg(kind) == [seg |-> kind, val |-> NoJson]
Json(val) == [seg |-> "json", val |-> val]

\* JSON.parse of a text: it succeeds when the text is one JSON value,
\* white space around it allowed
JsonParse(segs) ==
  LET body == SelectSeq(segs, LAMBDA g : g.seg # "ws")
  IN  IF Len(body) = 1 /\ body[1].seg = "json"
      THEN [ok |-> TRUE, val |-> body[1].val]
      ELSE [ok |-> FALSE, val |-> NoJson]

HasBraces(g) == g.seg = "json" /\ g.val.top = "object"

\* rawResponseText.match(/\{[\s\S]*\}/): from the first "{" to the last "}"
BraceMatch(segs) ==
  LET idx == {i \in 1..Len(segs) : HasBraces(segs[i])}
  IN  IF idx = {} THEN <<>>
      ELSE SubSeq(segs, CHOOSE i \in idx : \A j \in idx : i <= j,
                        CHOOSE i \in idx : \A j \in idx : j <= i)

\* a parser that tries the direct parse only
ParseResponseDirectOnly(raw) == JsonParse(raw)

\* src/server.js:75-88: parse after stripping the fence markers, else parse
\* the outermost brace-delimited substring
ParseResponse(raw) ==
  LET cleanJson == SelectSeq(raw, LAMBDA g : g.seg \notin {"fence_json", "fence"})
      first == JsonParse(cleanJson)
      match == BraceMatch(raw)
  IN  IF first.ok THEN first
      ELSE IF match # <<>> THEN JsonParse(match)
      ELSE [ok |-> FALSE, val |-> NoJson]

GeminiFailure ==
  [success |-> FALSE, detectedLang |-> JNull,
   translations |-> [l \in LangSet |-> Str(GeminiError)]]

\* a loop that records the string of the response as it is
GeminiLangValueUntrimmed(t) ==
  IF Truthy(t) /\ IsStr(t) THEN t ELSE Str(GeminiLangFailed)

\* src/server.js:96-104: the value recorded for one language
GeminiLangValue(t) ==
  IF Truthy(t) /\ IsStr(t) THEN Str(Trim(t.s)) ELSE Str(GeminiLangFailed)

\* a translator that returns the per-language values without the test
\* of oneSuccess
GeminiOutcomeNoValidation(resp) ==
  IF resp.kind = "error" THEN GeminiFailure
  ELSE LET p == ParseResponse(resp.raw)
       IN  IF ~p.ok \/ p.val.top # "object" \/ ~p.val.hasTr THEN GeminiFailure
           ELSE [success |-> TRUE,
                 detectedLang |-> IF Truthy(p.val.detected_lang)
                                  THEN p.val.detected_lang ELSE JNull,
                 translations |-> [l \in LangSet |-> GeminiLangValue(p.val.tr[l])]]

\* src/server.js:72-120: what translateWithGemini returns for one answer
GeminiOutcome(resp) ==
  IF resp.kind = "error" THEN GeminiFailure
  ELSE LET p == ParseResponse(resp.raw)
       IN  IF ~p.ok \/ p.val.top # "object" \/ ~p.val.hasTr THEN GeminiFailure
           ELSE IF ~\E l \in LangSet : Truthy(p.val.tr[l]) /\ IsStr(p.val.tr[l])
                THEN GeminiFailure
           ELSE [success |-> TRUE,
                 detectedLang |-> IF Truthy(p.val.detected_lang)
                                  THEN p.val.detected_lang ELSE JNull,
                 translations |-> [l \in LangSet |-> GeminiLangValue(p.val.tr[l])]]

(***************************************************************************)
(* A Google answer (detect or translate): the fetch rejects ("reject"),    *)
(* the body is the JSON null ("null"), an error payload ("error"), or a    *)
(* data payload whose language / translatedText field is text.             *)
(***************************************************************************)
GResp(kind, text) == [kind |-> kind, text |-> text]

\* a detector that answers en when it could detect nothing
DetectValueGuess(r, d) ==
  IF d.kind \in {"reject", "null", "error"} THEN Str(en)
  ELSE IF d.text \in {Str(<<"z","h">>), Str(<<"z","h","-","C","N">>)} THEN Str(zhTW)
  ELSE IF d.text = JUndef THEN Str(en)
  ELSE d.text

\* src/server.js:132-139 and src/unnamed/part_002:487-497
DetectValue(r, d) ==
  IF d.kind \in {"reject", "null"} THEN JNull
  ELSE IF d.kind = "error" THEN (IF r = "retry" THEN JNull ELSE JUndef)
  ELSE IF d.text \in {Str(<<"z","h">>), Str(<<"z","h","-","C","N">>)} THEN Str(zhTW)
  ELSE d.text

\* src/server.js:162-166 and src/unnamed/part_002:519-530
GoogleValue(r, x) ==
  IF x.kind \in {"reject", "null"}
  THEN (IF r = "retry" THEN Str(ConnectionError) ELSE Str(GoogleApiError))
  ELSE IF x.kind = "error"
  THEN (IF r = "retry" THEN Str(GoogleApiError) ELSE Str(GoogleFailed))
  ELSE IF Truthy(x.text) THEN x.text ELSE Str(GoogleFailed)

\* a loop that fetches every language whatever the hint
ShortCircuitNever(lang, sourceLang) == FALSE

\* src/server.js:152: sourceLang && lang.startsWith(sourceLang); a number or
\* an object is converted to text no language code starts with
ShortCircuit(lang, sourceLang) ==
  Truthy(sourceLang) /\ IsStr(sourceLang) /\ StartsWith(lang, sourceLang.s)

\* src/server.js:147: the outcome without an API key
GoogleNotConfigured == [l \in LangSet |-> Str(NotConfigured)]

(***************************************************************************)
(* The filter and the formatter of handleEvent.                            *)
(***************************************************************************)
\* the markers of filter A: src/server.js:214, src/unnamed/part_002:578
FilterMarkers(r) ==
  IF r = "retry" THEN {MarkFailed, MarkError, ConnectionError, NotConfigured}
  ELSE {MarkFailed, MarkError}

\* the filter callback without the language-code step B
FilterStepNoLangCheck(r, result, sourceLang, text, lang) ==
  IF ~Truthy(result) THEN "drop"
  ELSE IF ~IsStr(result) THEN "throw"
  ELSE IF \E m \in FilterMarkers(r) : Includes(result.s, m) THEN "drop"
  ELSE IF normalize(text) = normalize(result.s) THEN "drop"
  ELSE "keep"

\* src/server.js:210-235: the filter callback for one language;
\* "throw" is the TypeError of a method call on a value that is no string
FilterStep(r, result, sourceLang, text, lang) ==
  IF ~Truthy(result) THEN "drop"
  ELSE IF ~IsStr(result) THEN "throw"
  ELSE IF \E m \in FilterMarkers(r) : Includes(result.s, m) THEN "drop"
  ELSE IF Truthy(sourceLang) /\ ~IsStr(sourceLang) THEN "throw"
  ELSE IF /\ Truthy(sourceLang)
          /\ \/ StartsWith(ToLowerCase(lang), ToLowerCase(sourceLang.s))
             \/ /\ ToLowerCase(sourceLang.s) \in {<<"z","h">>, <<"z","h","-","c","n">>}
                /\ ToLowerCase(lang) = <<"z","h","-","t","w">>
       THEN "drop"
  ELSE IF normalize(text) = normalize(result.s) THEN "drop"
  ELSE "keep"

\* src/server.js:236: one reply line
ReplyLine(translations, lang) == <<flagMap[lang], " ">> \o translations[lang].s

RECURSIVE JoinSingleNewline(_)
\* a join with one line feed instead of a blank line
JoinSingleNewline(lines) ==
  IF lines = <<>> THEN <<>>
  ELSE IF Len(lines) = 1 THEN lines[1]
  ELSE lines[1] \o <<"LF">> \o JoinSingleNewline(Tail(lines))

RECURSIVE Join(_)
\* Array.prototype.join("\n\n")
Join(lines) ==
  IF lines = <<>> THEN <<>>
  ELSE IF Len(lines) = 1 THEN lines[1]
  ELSE lines[1] \o <<"LF", "LF">> \o Join(Tail(lines))

\* a filter that hands the kept languages on in the opposite order
KeptLangsReversed(r, translations, sourceLang, text) ==
  LET kept == SelectSeq(targetLangs,
                        LAMBDA l : FilterStep(r, translations[l], sourceLang, text, l) = "keep")
  IN  [k \in 1..Len(kept) |-> kept[Len(kept) + 1 - k]]

\* the languages the filter keeps, in the order of targetLangs
KeptLangs(r, translations, sourceLang, text) ==
  SelectSeq(targetLangs,
            LAMBDA l : FilterStep(r, translations[l], sourceLang, text, l) = "keep")

\* src/server.js:209-246: filter, format and the decision to reply
Finish(r, translations, sourceLang, text) ==
  IF \E l \in LangSet : FilterStep(r, translations[l], sourceLang, text, l) = "throw"
  THEN [out |-> "throw", text |-> <<>>]
  ELSE LET kept == KeptLangs(r, translations, sourceLang, text)
           replyLines == Join([i \in 1..Len(kept) |-> ReplyLine(translations, kept[i])])
       IN  IF replyLines = <<>> THEN [out |-> "none", text |-> <<>>]
           ELSE [out |-> "reply", text |-> replyLines]

(***************************************************************************)
(* The flat revision, src/unnamed/part_003.                                *)
(***************************************************************************)
\* src/unnamed/part_003:73-84: direct parse, else parse of the brace match
FlatParseResponse(raw) ==
  LET first == JsonParse(raw)
      match == BraceMatch(raw)
  IN  IF first.ok THEN first
      ELSE IF match # <<>> THEN JsonParse(match)
      ELSE [ok |-> FALSE, val |-> NoJson]

FlatGeminiFailure == [l \in LangSet |-> Str(FlatGeminiError)]

\* src/unnamed/part_003:64-108: what translateWithGemini returns; a member
\* access on a parsed null throws inside the try
FlatOutcome(resp) ==
  IF resp.kind = "error" THEN FlatGeminiFailure
  ELSE LET p == FlatParseResponse(resp.raw)
       IN  IF ~p.ok \/ p.val.top # "object" THEN FlatGeminiFailure
           ELSE IF ~\E l \in LangSet : Truthy(p.val.flat[l]) /\ IsStr(p.val.flat[l])
                THEN FlatGeminiFailure
           ELSE [l \in LangSet |->
                   IF Truthy(p.val.flat[l]) /\ IsStr(p.val.flat[l])
                   THEN p.val.flat[l] ELSE Str(GeminiLangFailed)]

\* src/unnamed/part_003:204: every value includes "(Gemini"
FlatGeminiFailed(translations) ==
  \A l \in LangSet : Includes(translations[l].s, GeminiMark)

\* src/unnamed/part_003:122-134: the source language after the detect
\* fetch; a response that is not ok, a null body and a body without
\* detection leave it "auto"
FlatDetectValue(d) ==
  IF d.kind = "data" /\ d.text # JUndef THEN d.text ELSE Str(FlatAuto)

\* src/unnamed/part_003:138: lang.startsWith(sourceLang) && sourceLang !== "auto"
FlatShortCircuit(lang, sourceLang) ==
  IsStr(sourceLang) /\ StartsWith(lang, sourceLang.s) /\ sourceLang # Str(FlatAuto)

\* src/unnamed/part_003:143-157
FlatGoogleValue(x) ==
  IF x.kind \in {"reject", "null"} THEN Str(FlatGoogleThrew)
  ELSE IF x.kind = "error" THEN Str(FlatGoogleNotOk)
  ELSE IF Truthy(x.text) THEN x.text ELSE Str(FlatGoogleNoText)

\* src/unnamed/part_003:210-216: the filter callback for one language
FlatFilterStep(result, text) ==
  IF ~Truthy(result) THEN "drop"
  ELSE IF ~IsStr(result) THEN "throw"
  ELSE IF Includes(result.s, MarkFailed) \/ Includes(result.s, MarkError) THEN "drop"
  ELSE IF ToLowerCase(Trim(result.s)) = ToLowerCase(Trim(text)) THEN "drop"
  ELSE "keep"

FlatKeptLangs(translations, text) ==
  SelectSeq(targetLangs, LAMBDA l : FlatFilterStep(translations[l], text) = "keep")

\* a formatter that replies with the joined lines also when there is none
FlatFinishEmptyReply(translations, text) ==
  IF \E l \in LangSet : FlatFilterStep(translations[l], text) = "throw"
  THEN [out |-> "throw", text |-> <<>>]
  ELSE LET kept == FlatKeptLangs(translations, text)
       IN  [out |-> "reply",
            text |-> Join([i \in 1..Len(kept) |-> ReplyLine(translations, kept[i])])]

\* src/unnamed/part_003:209-226: filter, format, and the text to reply
FlatFinish(translations, text) ==
  IF \E l \in LangSet : FlatFilterStep(translations[l], text) = "throw"
  THEN [out |-> "throw", text |-> <<>>]
  ELSE LET kept == FlatKeptLangs(translations, text)
           replyLines == Join([i \in 1..Len(kept) |-> ReplyLine(translations, kept[i])])
       IN  IF replyLines = <<>> THEN [out |-> "reply", text |-> Sentinel]
           ELSE [out |-> "reply", text |-> replyLines]

(***************************************************************************)
(* Inputs: the texts of the events and the answers of the backends.        *)
(***************************************************************************)
TextHello == <<"H","e","l","l","o">>
TextBlank == <<" ", " ">>
Texts == {TextHello, TextBlank}

\* an event of the batch: a text message or anything else (sticker, follow)
EventSet == [type : {"text", "other"}, text : Texts]

NiHao == <<"U4F60","U597D">>
Halo == <<"H","a","l","o">>
Hi == <<"H","i">>

TrFull == [l \in LangSet |->
             IF l = zhTW THEN Str(NiHao) ELSE IF l = en THEN Str(Hi) ELSE Str(Halo)]
\* en repeats the input with a full stop, id carries white space around it
TrEcho == [l \in LangSet |->
             IF l = zhTW THEN Str(NiHao)
             ELSE IF l = en THEN Str(<<"H","e","l","l","o",".">>)
             ELSE Str(<<" ","H","a","l","o"," ">>)]
\* en is a number, id is missing
TrPartial == [l \in LangSet |->
                IF l = zhTW THEN Str(NiHao) ELSE IF l = en THEN JNum ELSE JUndef]
\* no language carries a non-empty string
TrNone == [l \in LangSet |->
             IF l = zhTW THEN Str(<<>>) ELSE IF l = en THEN JObj ELSE JNull]
\* zh-TW is white space only, en is a number, id is missing
TrBlank == [l \in LangSet |->
              IF l = zhTW THEN Str(<<" ">>) ELSE IF l = en THEN JNum ELSE JUndef]
\* every language repeats the input up to case and white space
TrCase == [l \in LangSet |-> Str(<<" ","H","E","L","L","O">>)]
\* every language repeats the input up to case and punctuation
TrSame == [l \in LangSet |-> Str(<<"h","e","l","l","o","!">>)]

GErr(retryable) == [kind |-> "error", retryable |-> retryable, raw |-> <<>>]
GText(raw) == [kind |-> "text", retryable |-> FALSE, raw |-> raw]
\* a text whose brace-delimited substring JSON.parse rejects with a
\* SyntaxError whose message (it quotes the position of the error and, in
\* recent engines, the text around it) includes 500, 503 or overloaded
GTextMarked(raw) == [kind |-> "text", retryable |-> TRUE, raw |-> raw]
Obj(dl, tr) == Json(Parsed("object", dl, TRUE, tr))

\* with one event in the batch the backends answer anything of the rich
\* sets; with several events in flight, of the basic sets, which still make
\* every way a handler ends happen (reply, no reply, rejection)
GeminiResponsesBasic ==
  { GErr(FALSE),
    GText(<<Obj(JNull, TrFull)>>),
    GText(<<Obj(JNum, TrFull)>>) }

GeminiResponsesRich ==
  GeminiResponsesBasic \cup
  { GErr(TRUE),
    GText(<<Seg("prose")>>),
    GText(<<Json(Parsed("null", JUndef, FALSE, TrNone))>>),
    GText(<<Json(Parsed("object", Str(en), FALSE, TrNone))>>),
    GText(<<Obj(JNull, TrNone)>>),
    GText(<<Obj(JNull, TrBlank)>>),
    GText(<<Obj(Str(en), TrEcho)>>),
    GText(<<Obj(Str(en), TrFull)>>),
    GText(<<Obj(Str(en), TrSame)>>),
    GText(<<Obj(Str(id), TrPartial)>>),
    GText(<<Obj(Str(<<"z","h">>), TrEcho)>>),
    GText(<<Obj(Str(<<"e","n","-","U","S">>), TrFull)>>),
    GText(<<Obj(Str(<<"z","h","-","H","a","n","t">>), TrFull)>>),
    GText(<<Seg("fence_json"), Seg("ws"), Obj(JUndef, TrFull), Seg("ws"), Seg("fence")>>),
    GText(<<Seg("fence_json"), Seg("ws"), Obj(JUndef, TrEcho), Seg("ws"), Seg("fence")>>),
    GText(<<Seg("prose"), Obj(Str(<<"j","a">>), TrFull), Seg("prose")>>),
    GText(<<Obj(JNull, TrFull), Seg("prose"), Obj(JNull, TrFull)>>),
    GTextMarked(<<Obj(JNull, TrFull), Seg("prose"), Obj(JNull, TrFull)>>) }

\* an answer in the format of the flat revision: the language codes are
\* members of the top-level object
Flat(tr) ==
  Json([top |-> "object", detected_lang |-> JUndef, hasTr |-> FALSE,
        tr |-> [l \in LangSet |-> JUndef], flat |-> tr])

FlatGeminiResponsesBasic == { GErr(FALSE), GText(<<Flat(TrFull)>>) }

FlatGeminiResponsesRich ==
  FlatGeminiResponsesBasic \cup
  { GText(<<Seg("prose")>>),
    GText(<<Json(Parsed("null", JUndef, FALSE, TrNone))>>),
    GText(<<Flat(TrNone)>>),
    GText(<<Flat(TrPartial)>>),
    GText(<<Flat(TrEcho)>>),
    GText(<<Flat(TrCase)>>),
    GText(<<Flat(TrSame)>>),
    GText(<<Seg("fence_json"), Seg("ws"), Flat(TrFull), Seg("ws"), Seg("fence")>>),
    GText(<<Seg("prose"), Flat(TrFull), Seg("prose")>>),
    GText(<<Obj(JNull, TrFull)>>) }

FlatGeminiResponses(n) ==
  IF n <= 1 THEN FlatGeminiResponsesRich ELSE FlatGeminiResponsesBasic

GeminiResponses(n) == IF n <= 1 THEN GeminiResponsesRich ELSE GeminiResponsesBasic

\* what a repeated attempt of the retry revision is answered: a success, a
\* failure whose message carries no marker, or one of the two failures
\* whose message carries it
GeminiResponsesRepeated ==
  GeminiResponsesBasic \cup
  { GErr(TRUE),
    GTextMarked(<<Obj(JNull, TrFull), Seg("prose"), Obj(JNull, TrFull)>>) }

DetectResponsesBasic == { GResp("reject", JUndef) }

DetectResponsesRich ==
  DetectResponsesBasic \cup
  { GResp("null", JUndef),
    GResp("error", JUndef),
    GResp("data", JUndef),
    GResp("data", Str(en)),
    GResp("data", Str(<<"z","h","-","C","N">>)),
    GResp("data", JNum) }

DetectResponses(n) == IF n <= 1 THEN DetectResponsesRich ELSE DetectResponsesBasic

GoogleResponsesBasic(lang) == { GResp("data", TrFull[lang]) }

GoogleResponsesRich(lang) ==
  GoogleResponsesBasic(lang) \cup
  { GResp("reject", JUndef),
    GResp("null", JUndef),
    GResp("error", JUndef),
    GResp("data", JUndef),
    GResp("data", JNum) }

GoogleResponses(n, lang) ==
  IF n <= 1 THEN GoogleResponsesRich(lang) ELSE GoogleResponsesBasic(lang)

\* the completion of OpenAI: the call rejects, the payload has no choice
\* (reading choices[0].message throws inside the try), or it has a content
OpenAIResponses ==
  { GResp("reject", JUndef), GResp("data", JUndef), GResp("data", Str(NiHao)) }

\* the apology the catch of the openai revision replies with
Apology == <<"WARNING_SIGN", " ", "U62B1", "U6B49">>

\* const maxRetries = 3
maxRetries == 3

(***************************************************************************)
(* State.  h[i] is the activation of handleEvent for events[i]: its        *)
(* position pc, its locals (text, geminiResult.success, sourceLang,        *)
(* translations, the index gi of the language translateWithGoogle is at,   *)
(* the attempt and waitTime of the retry loop), the replies sent with its  *)
(* reply token and the number of calls made to each backend.  answer tells *)
(* what the last Gemini answer was (a rejected call, a text no parse       *)
(* accepts, a parsed value) and fallback whether handleEvent took the      *)
(* branch of the Google backend.  targets, variantLabel and variantInfo    *)
(* are the locals filteredTargets, variantLabel and variantInfo of the     *)
(* sequential revision.  primary is the translations member of the value   *)
(* translateWithGemini returned, parsedTr the member translations of the    *)
(* answer it parsed and validated, response the answer of chat.sendMessage *)
(* it returned on, retries the attempts it repeated (the kind of answer   *)
(* each had and the time slept after it), detected the answer the fetch of *)
(* detectLanguageGoogle got and gresp[l] the answer the fetch of           *)
(* translateWithGoogle for language l got.  A slot of translations or of   *)
(* primary that is JUndef is a key the object does not have.               *)
(***************************************************************************)
NoTranslations == [l \in LangSet |-> JUndef]

\* no answer of chat.sendMessage received yet
NoResponse == [kind |-> "none", retryable |-> FALSE, raw |-> <<>>]

\* no answer of the Google backend received yet
NoAnswer == GResp("none", JUndef)

Idle ==
  [pc |-> "idle", text |-> <<>>, success |-> "none", sourceLang |-> JUndef,
   translations |-> NoTranslations, gi |-> 0, attempt |-> 0, waitTime |-> 0,
   answer |-> "none", fallback |-> FALSE, targets |-> <<>>,
   variantLabel |-> <<>>, variantInfo |-> JNull,
   primary |-> NoTranslations, parsedTr |-> NoTranslations,
   response |-> NoResponse, detected |-> NoAnswer,
   gresp |-> [l \in LangSet |-> NoAnswer],
   retries |-> <<>>,
   sent |-> <<>>, nGemini |-> 0, nDetect |-> 0, nGoogle |-> 0]

N == Len(events)

\* the width of the answer sets of the activation hr: the rich sets for the
\* first attempt of a single event, the basic sets otherwise
Width(hr) == IF hr.attempt > 1 THEN MaxEvents ELSE N

RECURSIVE SeqsUpTo(_, _)
SeqsUpTo(S, n) ==
  IF n = 0 THEN {<<>>}
  ELSE LET shorter == SeqsUpTo(S, n - 1)
       IN  shorter \cup {Append(q, e) : q \in {r \in shorter : Len(r) = n - 1}, e \in S}

Init ==
  /\ rev \in {"main", "retry", "openai", "flat"}
  /\ apiKey \in BOOLEAN
  /\ events \in SeqsUpTo(EventSet, MaxEvents)
  /\ wpc = "recv"
  /\ acked = FALSE
  /\ h = [i \in 1..Len(events) |-> Idle]
  /\ errlog = {}
  /\ transportError = FALSE

(***************************************************************************)
(* The webhook route.                                                      *)
(***************************************************************************)
\* a route that goes on to the events without acknowledging
ReceiveNoAck ==
  /\ wpc = "recv"
  /\ wpc' = "acked"
  /\ UNCHANGED <<rev, apiKey, events, acked, h, errlog, transportError>>

\* src/server.js:174: res.status(200).send("OK")
Receive ==
  /\ wpc = "recv"
  /\ acked' = TRUE
  /\ wpc' = "acked"
  /\ UNCHANGED <<rev, apiKey, events, h, errlog, transportError>>

\* a handler that takes every event for a text message
StartHandlerAnyType(r, e) ==
  IF r = "openai" THEN [Idle EXCEPT !.pc = "openai", !.text = Trim(e.text)]
  ELSE [Idle EXCEPT !.pc = "gemini", !.text = Trim(e.text),
                    !.attempt = 1, !.nGemini = 1]

\* src/server.js:183-193: handleEvent up to its first await, the call of
\* chat.sendMessage in translateWithGemini; src/unnamed/part_000:31-53: up
\* to the call of openai.chat.completions.create (the language franc finds
\* only selects the wording of the prompt)
StartHandler(r, e) ==
  IF e.type # "text" THEN [Idle EXCEPT !.pc = "done"]
  ELSE IF r = "openai" THEN [Idle EXCEPT !.pc = "openai", !.text = Trim(e.text)]
  ELSE [Idle EXCEPT !.pc = "gemini", !.text = Trim(e.text),
                    !.attempt = 1, !.nGemini = 1]

\* src/server.js:175-176: events.forEach(event => handleEvent(event)...)
Dispatch ==
  /\ wpc = "acked"
  /\ wpc' = "dispatched"
  /\ h' = [i \in 1..N |-> StartHandler(rev, events[i])]
  /\ UNCHANGED <<rev, apiKey, events, acked, errlog, transportError>>

\* src/server.js:176: .catch(console.error) on the promise of handleEvent;
\* src/unnamed/part_000:27-28: Promise.all(...).catch logs the first
\* rejection and absorbs the later ones
CatchHandler(r, log, te, i) ==
  [errlog |-> IF r = "openai" /\ log # {} THEN log ELSE log \cup {i},
   transportError |-> te]

\* handlers that keep their translations in one object they all share
SettleShared(i, hr) ==
  /\ h' = [j \in 1..N |-> IF j = i THEN hr
                          ELSE [h[j] EXCEPT !.translations = hr.translations]]
  /\ IF hr.pc = "failed"
     THEN LET c == CatchHandler(rev, errlog, transportError, i)
          IN  errlog' = c.errlog /\ transportError' = c.transportError
     ELSE UNCHANGED <<errlog, transportError>>
  /\ UNCHANGED <<rev, apiKey, events, wpc, acked>>

\* the handler of event i ends in state hr; a rejection goes to the catch
Settle(i, hr) ==
  /\ h' = [h EXCEPT ![i] = hr]
  /\ IF hr.pc = "failed"
     THEN LET c == CatchHandler(rev, errlog, transportError, i)
          IN  errlog' = c.errlog /\ transportError' = c.transportError
     ELSE UNCHANGED <<errlog, transportError>>
  /\ UNCHANGED <<rev, apiKey, events, wpc, acked>>

(***************************************************************************)
(* handleEvent.                                                            *)
(***************************************************************************)
\* a handler that sends a second message when the filter kept a language
CompleteRepliesTwice(r, hr) ==
  LET f == Finish(r, hr.translations, hr.sourceLang, hr.text)
  IN  IF f.out = "throw" THEN [hr EXCEPT !.pc = "failed"]
      ELSE IF f.out = "none" THEN [hr EXCEPT !.pc = "done"]
      ELSE [hr EXCEPT !.pc = "reply", !.sent = hr.sent \o <<f.text, f.text>>]

\* src/server.js:209-246: filter, format, reply
Complete(r, hr) ==
  LET f == Finish(r, hr.translations, hr.sourceLang, hr.text)
  IN  IF f.out = "throw" THEN [hr EXCEPT !.pc = "failed"]
      ELSE IF f.out = "none" THEN [hr EXCEPT !.pc = "done"]
      ELSE [hr EXCEPT !.pc = "reply", !.sent = Append(hr.sent, f.text)]

RECURSIVE GoogleLoopSkipsSlot(_, _, _)
\* a loop that leaves the slot of a short-circuited language unset
GoogleLoopSkipsSlot(r, hr, k) ==
  IF k > Len(targetLangs) THEN Complete(r, hr)
  ELSE IF ShortCircuit(targetLangs[k], hr.sourceLang)
  THEN GoogleLoopSkipsSlot(r, hr, k + 1)
  ELSE [hr EXCEPT !.pc = "google", !.gi = k, !.nGoogle = hr.nGoogle + 1]

\* a loop that starts the fetches of all the remaining languages at once
GoogleLoopFanOut(r, hr, k) ==
  IF k > Len(targetLangs) THEN Complete(r, hr)
  ELSE [hr EXCEPT !.pc = "google", !.gi = k,
                  !.nGoogle = hr.nGoogle + (Len(targetLangs) - k + 1)]

RECURSIVE GoogleLoop(_, _, _)
\* src/server.js:150-168: the loop of translateWithGoogle from language k
\* up to its next fetch, or to its end and on into the filter
GoogleLoop(r, hr, k) ==
  IF k > Len(targetLangs) THEN Complete(r, hr)
  ELSE IF ShortCircuit(targetLangs[k], hr.sourceLang)
  THEN GoogleLoop(r, [hr EXCEPT !.translations[targetLangs[k]] = Str(hr.text)], k + 1)
  ELSE [hr EXCEPT !.pc = "google", !.gi = k, !.nGoogle = hr.nGoogle + 1]

\* a handler that runs the Google branch whatever geminiResult.success is
AfterGeminiAlwaysFallback(r, key, hr, g) ==
  [hr EXCEPT !.success = IF g.success THEN "yes" ELSE "no", !.fallback = TRUE,
             !.pc = "detect", !.nDetect = hr.nDetect + 1]

\* a handler that passes no language hint to the filter after a success
AfterGeminiNoHint(r, key, hr, g) ==
  IF g.success
  THEN Complete(r, [hr EXCEPT !.success = "yes", !.translations = g.translations,
                              !.sourceLang = JNull])
  ELSE IF ~key
  THEN Complete(r, [hr EXCEPT !.success = "no", !.fallback = TRUE,
                              !.sourceLang = JNull,
                              !.translations = GoogleNotConfigured])
  ELSE [hr EXCEPT !.success = "no", !.fallback = TRUE, !.pc = "detect",
                  !.nDetect = hr.nDetect + 1]

\* src/server.js:195-204: the branch on geminiResult.success
AfterGemini(r, key, hr, g) ==
  IF g.success
  THEN Complete(r, [hr EXCEPT !.success = "yes", !.translations = g.translations,
                              !.sourceLang = g.detectedLang])
  ELSE IF ~key
  THEN Complete(r, [hr EXCEPT !.success = "no", !.fallback = TRUE,
                              !.sourceLang = JNull,
                              !.translations = GoogleNotConfigured])
  ELSE [hr EXCEPT !.success = "no", !.fallback = TRUE, !.pc = "detect",
                  !.nDetect = hr.nDetect + 1]

\* src/unnamed/part_003:209-226: filter, format, reply
FlatComplete(hr) ==
  LET f == FlatFinish(hr.translations, hr.text)
  IN  IF f.out = "throw" THEN [hr EXCEPT !.pc = "failed"]
      ELSE [hr EXCEPT !.pc = "reply", !.sent = Append(hr.sent, f.text)]

RECURSIVE FlatGoogleLoop(_, _)
\* src/unnamed/part_003:136-158: the loop of translateWithGoogle from
\* language k up to its next fetch, or to its end and on into the filter
FlatGoogleLoop(hr, k) ==
  IF k > Len(targetLangs) THEN FlatComplete(hr)
  ELSE IF FlatShortCircuit(targetLangs[k], hr.sourceLang)
  THEN FlatGoogleLoop([hr EXCEPT !.translations[targetLangs[k]] = Str(hr.text)], k + 1)
  ELSE [hr EXCEPT !.pc = "google", !.gi = k, !.nGoogle = hr.nGoogle + 1]

\* src/unnamed/part_003:201-207 and 113-121: the test of geminiFailed and
\* translateWithGoogle up to its detect fetch
FlatAfterGemini(key, hr, tr) ==
  IF ~FlatGeminiFailed(tr)
  THEN FlatComplete([hr EXCEPT !.success = "yes", !.translations = tr])
  ELSE IF ~key
  THEN FlatComplete([hr EXCEPT !.success = "no", !.fallback = TRUE,
                               !.translations = GoogleNotConfigured])
  ELSE [hr EXCEPT !.success = "no", !.fallback = TRUE, !.pc = "detect",
                  !.nDetect = hr.nDetect + 1]

\* what kind of answer chat.sendMessage gave: a rejected call, a text no
\* parse accepts, a parsed value the validation of src/server.js:91-106
\* rejects, or a parsed value it accepts
AnswerKind(resp) ==
  IF resp.kind = "error" THEN "error"
  ELSE LET p == ParseResponse(resp.raw)
       IN  IF ~p.ok THEN "unparseable"
           ELSE IF \/ p.val.top # "object" \/ ~p.val.hasTr
                   \/ ~\E l \in LangSet : Truthy(p.val.tr[l]) /\ IsStr(p.val.tr[l])
                THEN "invalid"
           ELSE "valid"

\* src/unnamed/part_002:411-423: the statements of the try block that throw
\* an error whose message comes from outside: chat.sendMessage and
\* JSON.parse(match[0]); the other errors carry the fixed messages of
\* lines 425, 430 and 445, or the TypeError of reading a member of null
ThrowsForeign(resp) ==
  \/ resp.kind = "error"
  \/ /\ resp.kind = "text"
     /\ ~ParseResponse(resp.raw).ok
     /\ BraceMatch(resp.raw) # <<>>

\* src/unnamed/part_002:455: isRetryable
isRetryable(resp) == ThrowsForeign(resp) /\ resp.retryable

\* src/unnamed/part_002:457
Retries(r, hr, resp) ==
  r = "retry" /\ isRetryable(resp) /\ hr.attempt < maxRetries

\* a catch that returns the failure object for errors it cannot retry only
ReturnsFailureNotRetryable(r, hr, resp) == r # "retry" \/ ~isRetryable(resp)

\* src/unnamed/part_002:465: if (attempt === maxRetries || !isRetryable);
\* the catch of src/server.js:114-120 returns the failure object always
ReturnsFailure(r, hr, resp) ==
  r # "retry" \/ hr.attempt = maxRetries \/ ~isRetryable(resp)

\* src/unnamed/part_002:397: attempt++ and the test attempt <= maxRetries,
\* reached by continue and by the end of the catch block; past the loop the
\* function returns undefined, and the read of geminiResult.success in
\* handleEvent (src/unnamed/part_002:559) throws
LoopNext(hr) ==
  IF hr.attempt + 1 <= maxRetries
  THEN [hr EXCEPT !.pc = "gemini", !.attempt = hr.attempt + 1,
                  !.nGemini = hr.nGemini + 1]
  ELSE [hr EXCEPT !.pc = "failed"]

\* a loop that sleeps the same time before every retry
WaitTimeFixed(attempt) == 1000

\* src/unnamed/part_002:458: const waitTime = attempt * 1000
WaitTime(attempt) == attempt * 1000

\* chat.sendMessage settles
GeminiReturns(i) ==
  /\ h[i].pc = "gemini"
  /\ rev # "flat"
  /\ \E resp \in (IF h[i].attempt > 1 THEN GeminiResponsesRepeated
                  ELSE GeminiResponses(N)) :
       IF Retries(rev, h[i], resp)
       THEN Settle(i, [h[i] EXCEPT !.pc = "sleep",
                                   !.waitTime = WaitTime(h[i].attempt),
                                   !.retries = Append(h[i].retries,
                                                      [after |-> AnswerKind(resp),
                                                       wait |-> WaitTime(h[i].attempt)])])
       ELSE IF AnswerKind(resp) = "valid" \/ ReturnsFailure(rev, h[i], resp)
       THEN Settle(i, AfterGemini(rev, apiKey,
                                  [h[i] EXCEPT !.answer = AnswerKind(resp),
                                               !.response = resp,
                                               !.primary = GeminiOutcome(resp).translations,
                                               !.parsedTr =
                                                  IF AnswerKind(resp) = "valid"
                                                  THEN ParseResponse(resp.raw).val.tr
                                                  ELSE NoTranslations],
                                  GeminiOutcome(resp)))
       ELSE Settle(i, LoopNext([h[i] EXCEPT !.response = resp]))

\* what kind of answer chat.sendMessage gave, for the validation of
\* src/unnamed/part_003:86-98
FlatAnswerKind(resp) ==
  IF resp.kind = "error" THEN "error"
  ELSE LET p == FlatParseResponse(resp.raw)
       IN  IF ~p.ok THEN "unparseable"
           ELSE IF \/ p.val.top # "object"
                   \/ ~\E l \in LangSet : Truthy(p.val.flat[l]) /\ IsStr(p.val.flat[l])
                THEN "invalid"
           ELSE "valid"

\* src/unnamed/part_003:68: chat.sendMessage of the flat revision settles
FlatGeminiReturns(i) ==
  /\ h[i].pc = "gemini"
  /\ rev = "flat"
  /\ \E resp \in FlatGeminiResponses(N) :
       Settle(i, FlatAfterGemini(apiKey,
                                 [h[i] EXCEPT !.answer = FlatAnswerKind(resp),
                                              !.response = resp,
                                              !.primary = FlatOutcome(resp)],
                                 FlatOutcome(resp)))

\* src/unnamed/part_002:460-461: sleep(waitTime) is over, next attempt
SleepDone(i) ==
  /\ h[i].pc = "sleep"
  /\ Settle(i, LoopNext(h[i]))

\* the fetch of detectLanguageGoogle settles
DetectReturns(i) ==
  /\ h[i].pc = "detect"
  /\ \E d \in DetectResponses(Width(h[i])) :
       IF rev = "flat"
       THEN Settle(i, FlatGoogleLoop([h[i] EXCEPT !.sourceLang = FlatDetectValue(d),
                                                  !.detected = d], 1))
       ELSE Settle(i, GoogleLoop(rev, [h[i] EXCEPT !.sourceLang = DetectValue(rev, d),
                                                   !.detected = d], 1))

\* a translator that gives up at the first failed fetch and records the
\* failure for every language
GoogleReturnsBlanket(i) ==
  /\ h[i].pc = "google"
  /\ LET lang == targetLangs[h[i].gi]
     IN  \E x \in GoogleResponses(Width(h[i]), lang) :
           IF x.kind = "data" /\ Truthy(x.text)
           THEN Settle(i, GoogleLoop(rev,
                                     [h[i] EXCEPT !.translations[lang] = GoogleValue(rev, x),
                                                  !.gresp[lang] = x],
                                     h[i].gi + 1))
           ELSE Settle(i, Complete(rev,
                                   [h[i] EXCEPT !.translations =
                                                  [l \in LangSet |-> GoogleValue(rev, x)],
                                                !.gresp[lang] = x]))

\* the fetch of translateWithGoogle for language gi settles
GoogleReturns(i) ==
  /\ h[i].pc = "google"
  /\ LET lang == targetLangs[h[i].gi]
     IN  \E x \in GoogleResponses(Width(h[i]), lang) :
           IF rev = "flat"
           THEN Settle(i, FlatGoogleLoop([h[i] EXCEPT !.translations[lang] = FlatGoogleValue(x),
                                                      !.gresp[lang] = x],
                                         h[i].gi + 1))
           ELSE Settle(i, GoogleLoop(rev,
                                     [h[i] EXCEPT !.translations[lang] = GoogleValue(rev, x),
                                                  !.gresp[lang] = x],
                                     h[i].gi + 1))

\* src/unnamed/part_000:52-72: the OpenAI call settles; the reply is the
\* content of the completion, or the apology of the catch
OpenAIReply(o) == IF o.kind = "data" /\ IsStr(o.text) THEN o.text.s ELSE Apology

\* openai.chat.completions.create settles
OpenAIReturns(i) ==
  /\ h[i].pc = "openai"
  /\ \E o \in OpenAIResponses :
       Settle(i, [h[i] EXCEPT !.pc = "reply",
                              !.sent = Append(h[i].sent, OpenAIReply(o))])

\* lineClient.replyMessage resolves
ReplyDelivered(i) ==
  /\ h[i].pc = "reply"
  /\ Settle(i, [h[i] EXCEPT !.pc = "done"])

\* lineClient.replyMessage rejects: so does handleEvent, which returned it
ReplyRejected(i) ==
  /\ h[i].pc = "reply"
  /\ Settle(i, [h[i] EXCEPT !.pc = "failed"])

Next ==
  \/ Receive
  \/ Dispatch
  \/ \E i \in 1..N : GeminiReturns(i)
  \/ \E i \in 1..N : FlatGeminiReturns(i)
  \/ \E i \in 1..N : SleepDone(i)
  \/ \E i \in 1..N : DetectReturns(i)
  \/ \E i \in 1..N : GoogleReturns(i)
  \/ \E i \in 1..N : OpenAIReturns(i)
  \/ \E i \in 1..N : ReplyDelivered(i)
  \/ \E i \in 1..N : ReplyRejected(i)

Spec == Init /\ [][Next]_vars

(***************************************************************************)
(* The sequential revision, src/server.js:254-447: the route handler is an *)
(* async function that loops over the events and awaits the detector, the  *)
(* translators and the reply of one event before it turns to the next.     *)
(* Nothing catches a rejection of the handler.                             *)
(***************************************************************************)
GeminiApiError ==
  <<"(","G","e","m","i","n","i"," ","A","P","I"," ","U932F","U8AA4",")">>
GoogleTranslateError ==
  <<"(","G","o","o","g","l","e"," ","U7FFB","U8B6F","U932F","U8AA4",")">>
GoogleCallFailed ==
  <<"(","G","o","o","g","l","e"," ","A","P","I"," ","U547C","U53EB","U5931","U6557",")">>
NoResult == <<"WARNING_SIGN", " ", "U7121", "U7FFB", "U8B6F", "U7D50", "U679C">>
Auto == <<"a","u","t","o">>
BahasaIndonesia == <<"B","a","h","a","s","a">>
Javanese == <<"J","a","v","a","n","e","s","e">>
UnknownLanguage == <<"U672A","U77E5","U8A9E","U8A00">>

\* what franc(text) can find
FrancCodes(n) == IF n <= 1 THEN {"ind", "jav", "und"} ELSE {"ind"}

\* src/server.js:313-318: langLabelMap[langCode] || "未知語言"
VariantLabel(code) ==
  IF code = "ind" THEN BahasaIndonesia
  ELSE IF code = "jav" THEN Javanese
  ELSE UnknownLanguage

SeqDetectResponses(n) ==
  IF n <= 1
  THEN { GResp("reject", JUndef), GResp("data", JUndef), GResp("data", Str(en)),
         GResp("data", Str(<<"z","h","-","C","N">>)) }
  ELSE { GResp("reject", JUndef) }

SeqGeminiResponses(n) ==
  IF n <= 1 THEN GeminiResponsesRich
  ELSE { GErr(FALSE), GText(<<Obj(JNull, TrFull)>>), GText(<<Obj(JNull, TrNone)>>) }

SeqGoogleResponses(n, lang) ==
  IF n <= 1
  THEN { GResp("reject", JUndef), GResp("data", JUndef), GResp("data", TrFull[lang]) }
  ELSE { GResp("data", TrFull[lang]) }

\* src/server.js:296-309: detectInputLanguage; reading the language of a
\* payload without detections throws inside the try
SeqDetectValue(d) ==
  IF d.kind = "data" /\ d.text # JUndef THEN d.text ELSE Str(Auto)

\* src/server.js:389-390: langMap[detectedLang] || detectedLang
SourceLangMapped(v) ==
  IF v \in {Str(<<"z","h">>), Str(<<"z","h","-","C","N">>)} THEN Str(zhTW) ELSE v

\* src/server.js:391: targetLangs.filter(lang => lang !== sourceLangMapped)
FilteredTargets(v) == SelectSeq(targetLangs, LAMBDA l : Str(l) # SourceLangMapped(v))

\* src/server.js:330-337: direct parse, else parse of the brace match
SeqParseResponse(raw) ==
  LET first == JsonParse(raw)
      match == BraceMatch(raw)
  IN  IF first.ok THEN first
      ELSE IF match # <<>> THEN JsonParse(match)
      ELSE [ok |-> FALSE, val |-> NoJson]

\* src/server.js:324-353: what translateWithGeminiSmart returns
SmartOutcome(resp, targets, label) ==
  LET p == IF resp.kind = "error" THEN [ok |-> FALSE, val |-> NoJson]
           ELSE SeqParseResponse(resp.raw)
  IN  IF ~p.ok \/ p.val.top # "object"
      THEN [translations |-> [l \in LangSet |->
                                IF l \in Range(targets) THEN Str(GeminiApiError)
                                ELSE JUndef],
            variantInfo |-> JNull]
      ELSE [translations |-> [l \in LangSet |->
                                IF l \notin Range(targets) THEN JUndef
                                ELSE IF Truthy(p.val.tr[l]) THEN p.val.tr[l]
                                ELSE Str(GeminiLangFailed)],
            variantInfo |-> IF label # BahasaIndonesia THEN Str(label) ELSE JNull]

RECURSIVE EveryFailed(_, _, _)
\* src/server.js:397: Object.values(translations).every(v =>
\* v.includes("錯誤") || v.includes("失敗")), from the k-th value on:
\* "yes", "no", or "throw" when a value reached is no string
EveryFailed(translations, targets, k) ==
  IF k > Len(targets) THEN "yes"
  ELSE LET v == translations[targets[k]]
       IN  IF ~IsStr(v) THEN "throw"
           ELSE IF Includes(v.s, <<"U932F","U8AA4">>) \/ Includes(v.s, <<"U5931","U6557">>)
           THEN EveryFailed(translations, targets, k + 1)
           ELSE "no"

\* the text a template literal makes of a value
ToText(v) ==
  IF IsStr(v) THEN v.s
  ELSE IF v.k = "num" THEN <<"5">>
  ELSE IF v.k = "obj" THEN <<"[","o","b","j","e","c","t","]">>
  ELSE IF v.k = "null" THEN <<"n","u","l","l">>
  ELSE <<"u","n","d","e","f","i","n","e","d">>

\* src/server.js:404-417: the text of the reply
SeqReplyText(hr) ==
  LET note == IF Truthy(hr.variantInfo)
              THEN << <<"VARIANT_NOTE">> \o hr.variantInfo.s >> ELSE <<>>
      lines == [k \in 1..Len(hr.targets) |->
                  <<flagMap[hr.targets[k]], " ">> \o ToText(hr.translations[hr.targets[k]])]
      text == Join(note \o lines)
  IN  IF text = <<>> THEN NoResult ELSE text

\* src/server.js:404-417: build the reply and call lineClient.replyMessage
SeqReply(hr) ==
  [hr EXCEPT !.pc = "reply", !.sent = Append(hr.sent, SeqReplyText(hr))]

\* src/server.js:360-372: translateWithGoogle reaches its k-th fetch, or its
\* end and the reply
SeqGoogleLoop(hr, k) ==
  IF k > Len(hr.targets) THEN SeqReply(hr)
  ELSE [hr EXCEPT !.pc = "google", !.gi = k, !.nGoogle = hr.nGoogle + 1]

\* src/server.js:367-371
SeqGoogleValue(x) ==
  IF x.kind # "data" THEN Str(GoogleCallFailed)
  ELSE IF Truthy(x.text) THEN x.text ELSE Str(GoogleTranslateError)

\* src/server.js:395-402: after translateWithGeminiSmart
SeqAfterGemini(hr, out) ==
  LET hr1 == [hr EXCEPT !.translations = out.translations,
                        !.variantInfo = out.variantInfo]
      failed == EveryFailed(out.translations, hr.targets, 1)
  IN  IF failed = "throw" THEN [hr1 EXCEPT !.pc = "failed"]
      ELSE IF failed = "yes"
      THEN SeqGoogleLoop([hr1 EXCEPT !.fallback = TRUE, !.variantInfo = JNull,
                                     !.translations = NoTranslations], 1)
      ELSE SeqReply(hr1)

RECURSIVE SeqLoop(_, _)
\* src/server.js:384-387: the for loop from event k: events that are no text
\* message are skipped, the first text message is trimmed and
\* detectInputLanguage called; past the last event the handler returns
SeqLoop(hs, k) ==
  IF k > Len(hs) THEN [h |-> hs, wpc |-> "finished"]
  ELSE IF events[k].type # "text"
  THEN SeqLoop([hs EXCEPT ![k] = [Idle EXCEPT !.pc = "done"]], k + 1)
  ELSE [h |-> [hs EXCEPT ![k] = [Idle EXCEPT !.pc = "detect",
                                             !.text = Trim(events[k].text),
                                             !.nDetect = 1]],
        wpc |-> "loop"]

\* the event the loop is at
Cur(i) == wpc = "loop" /\ i \in 1..N /\ h[i].pc \notin {"idle", "done"}

\* the step of event i leaves its activation as hr: a rejection leaves the
\* loop and the handler (nothing catches it), a delivered reply moves the
\* loop on, anything else waits for the next answer
SeqSettle(i, hr) ==
  /\ IF hr.pc = "failed"
     THEN h' = [h EXCEPT ![i] = hr] /\ wpc' = "aborted" /\ transportError' = TRUE
     ELSE IF hr.pc = "done"
     THEN LET nxt == SeqLoop([h EXCEPT ![i] = hr], i + 1)
          IN  h' = nxt.h /\ wpc' = nxt.wpc /\ UNCHANGED transportError
     ELSE h' = [h EXCEPT ![i] = hr] /\ UNCHANGED <<wpc, transportError>>
  /\ UNCHANGED <<rev, apiKey, events, acked, errlog>>

InitSeq ==
  /\ rev = "seq"
  /\ apiKey = TRUE
  /\ events \in SeqsUpTo(EventSet, MaxEvents)
  /\ wpc = "recv"
  /\ acked = FALSE
  /\ h = [i \in 1..Len(events) |-> Idle]
  /\ errlog = {}
  /\ transportError = FALSE

\* src/server.js:381: res.status(200).send("OK")
SeqReceive ==
  /\ wpc = "recv"
  /\ acked' = TRUE
  /\ wpc' = "acked"
  /\ UNCHANGED <<rev, apiKey, events, h, errlog, transportError>>

\* src/server.js:382-387: the loop starts
SeqBegin ==
  /\ wpc = "acked"
  /\ LET nxt == SeqLoop(h, 1) IN h' = nxt.h /\ wpc' = nxt.wpc
  /\ UNCHANGED <<rev, apiKey, events, acked, errlog, transportError>>

\* src/server.js:387-395: detectInputLanguage settles; the targets are
\* filtered and translateWithGeminiSmart runs up to chat.sendMessage
SeqDetectReturns(i) ==
  /\ Cur(i) /\ h[i].pc = "detect"
  /\ \E d \in SeqDetectResponses(N), code \in FrancCodes(N) :
       SeqSettle(i, [h[i] EXCEPT !.pc = "gemini",
                                 !.sourceLang = SourceLangMapped(SeqDetectValue(d)),
                                 !.targets = FilteredTargets(SeqDetectValue(d)),
                                 !.variantLabel = VariantLabel(code),
                                 !.nGemini = 1])

\* chat.sendMessage of translateWithGeminiSmart settles
SeqGeminiReturns(i) ==
  /\ Cur(i) /\ h[i].pc = "gemini"
  /\ \E resp \in SeqGeminiResponses(N) :
       SeqSettle(i, SeqAfterGemini([h[i] EXCEPT !.answer = AnswerKind(resp)],
                                   SmartOutcome(resp, h[i].targets, h[i].variantLabel)))

\* the fetch of translateWithGoogle for the gi-th target settles
SeqGoogleReturns(i) ==
  /\ Cur(i) /\ h[i].pc = "google"
  /\ LET lang == h[i].targets[h[i].gi]
     IN  \E x \in SeqGoogleResponses(N, lang) :
           SeqSettle(i, SeqGoogleLoop([h[i] EXCEPT !.translations[lang] = SeqGoogleValue(x)],
                                      h[i].gi + 1))

\* src/server.js:414: await lineClient.replyMessage resolves
SeqReplyDelivered(i) ==
  /\ Cur(i) /\ h[i].pc = "reply"
  /\ SeqSettle(i, [h[i] EXCEPT !.pc = "done"])

\* src/server.js:414: await lineClient.replyMessage rejects
SeqReplyRejected(i) ==
  /\ Cur(i) /\ h[i].pc = "reply"
  /\ SeqSettle(i, [h[i] EXCEPT !.pc = "failed"])

NextSeq ==
  \/ SeqReceive
  \/ SeqBegin
  \/ \E i \in 1..N : SeqDetectReturns(i)
  \/ \E i \in 1..N : SeqGeminiReturns(i)
  \/ \E i \in 1..N : SeqGoogleReturns(i)
  \/ \E i \in 1..N : SeqReplyDelivered(i)
  \/ \E i \in 1..N : SeqReplyRejected(i)

SpecSeq == InitSeq /\ [][NextSeq]_vars

(***************************************************************************)
(* Properties.                                                             *)
(***************************************************************************)
IsText(i) == events[i].type = "text"
\* handleEvent for event i has run to its end (a reply it sent may still be
\* in flight)
Ended(i) == h[i].pc \in {"reply", "done", "failed"}
\* handleEvent threw before it could send anything
Threw(i) == h[i].pc = "failed" /\ h[i].sent = <<>>

Placeholders ==
  {GeminiLangFailed, GeminiError, NotConfigured, GoogleFailed, GoogleApiError,
   ConnectionError}

\* the reply text has a line decorated with the flag of lang
HasLineFor(text, lang) ==
  \E p \in 1..Len(text) :
    /\ text[p] = flagMap[lang]
    /\ p = 1 \/ (p > 2 /\ text[p - 1] = "LF" /\ text[p - 2] = "LF")

RECURSIVE LinesOf(_, _)
\* the reply text expected for the languages ls, in that order: flag, space
\* and text of each, a blank line between two of them
LinesOf(translations, ls) ==
  IF ls = <<>> THEN <<>>
  ELSE <<flagMap[Head(ls)], " ">> \o translations[Head(ls)].s
       \o (IF Len(ls) = 1 THEN <<>>
           ELSE <<"LF", "LF">> \o LinesOf(translations, Tail(ls)))

\* C1 as stated: a text event gets exactly one reply when its trimmed text
\* is non-empty and none when it is empty
C1_ExactlyOneReplyIfNonEmpty ==
  \A i \in 1..N :
    (rev \in {"main", "retry"} /\ IsText(i) /\ Ended(i)) =>
      Len(h[i].sent) = (IF Trim(events[i].text) # <<>> THEN 1 ELSE 0)

\* C1 amended: a text event never gets more than one reply; it gets exactly
\* one when the filter keeps at least one language and none when the filter
\* keeps no language or throws, whether or not the trimmed text is empty
C1_AtMostOneReply ==
  \A i \in 1..N :
    /\ Len(h[i].sent) <= 1
    /\ ~Ended(i) => h[i].sent = <<>>
    /\ (rev \in {"main", "retry"} /\ IsText(i) /\ Ended(i)) =>
         (Len(h[i].sent) = 1 <=>
            /\ \A l \in LangSet :
                 FilterStep(rev, h[i].translations[l], h[i].sourceLang, h[i].text, l)
                   # "throw"
            /\ KeptLangs(rev, h[i].translations, h[i].sourceLang, h[i].text) # <<>>)

C1_Witness ==
  \E i \in 1..N :
    /\ h[i].pc = "done" /\ h[i].text # <<>> /\ Len(h[i].sent) = 1
    /\ KeptLangs(rev, h[i].translations, h[i].sourceLang, h[i].text) # <<>>

\* C2: handleEvent never throws on a non-empty text, whatever the backends
\* answer
C2_HandleEventNeverThrows ==
  \A i \in 1..N : (rev = "main" /\ h[i].text # <<>>) => ~Threw(i)

\* C3: no failure placeholder of a translator appears in a reply
C3_NoPlaceholderInReply ==
  \A i \in 1..N : \A k \in 1..Len(h[i].sent) :
    (rev = "main" /\ h[i].text # <<>>) =>
      \A ph \in Placeholders : ~Includes(h[i].sent[k], ph)

\* C4: the Google backend (detect, translate) is used only after the primary
\* translator returned success = false
C4_SecondaryOnlyAfterPrimaryFailure ==
  \A i \in 1..N :
    /\ (h[i].fallback \/ h[i].nDetect > 0 \/ h[i].nGoogle > 0
          \/ h[i].pc \in {"detect", "google"}) => h[i].success = "no"
    /\ h[i].success = "yes" => (h[i].nDetect = 0 /\ h[i].nGoogle = 0)

C4_Witness ==
  \E i \in 1..N :
    /\ h[i].pc = "done" /\ h[i].success = "yes" /\ Len(h[i].sent) = 1
    /\ h[i].nGemini >= 1 /\ h[i].nDetect = 0 /\ h[i].nGoogle = 0 /\ apiKey

\* C5: when the hint is one of the target languages, the reply has no line
\* for that language
C5_SourceLanguageDropped ==
  \A i \in 1..N : \A k \in 1..Len(h[i].sent) :
    (IsStr(h[i].sourceLang) /\ h[i].sourceLang.s \in LangSet) =>
      ~HasLineFor(h[i].sent[k], h[i].sourceLang.s)

\* hint en: the reply is the zh-TW line and the id line
C5_Witness ==
  \E i \in 1..N :
    /\ h[i].sourceLang = Str(en) /\ h[i].text = TextHello
    /\ h[i].sent = <<LinesOf(h[i].translations, <<zhTW, id>>)>>
    /\ h[i].translations[en] \notin {Str(TextHello)} \cup {Str(ph) : ph \in Placeholders}

\* C6: an empty or white-space-only text makes no backend call and no reply
C6_EmptyInputIsNoOp ==
  \A i \in 1..N :
    (rev = "main" /\ IsText(i) /\ Trim(events[i].text) = <<>>) =>
      /\ h[i].nGemini = 0 /\ h[i].nDetect = 0 /\ h[i].nGoogle = 0
      /\ h[i].sent = <<>>

\* the languages whose slot holds a failure placeholder
FailedLangs(i) ==
  SelectSeq(targetLangs, LAMBDA l : h[i].translations[l] \in {Str(ph) : ph \in Placeholders})

\* neither the language-code step nor the echo step of the filter applies
NoHintNoEcho(i) ==
  /\ ~Truthy(h[i].sourceLang)
  /\ \A l \in LangSet :
       IsStr(h[i].translations[l]) =>
         normalize(h[i].translations[l].s) # normalize(h[i].text)

\* C7: primary unparseable, secondary configured, two languages translated
\* and one failed: the reply is exactly the lines of the two
C7_TwoOfThree ==
  \A i \in 1..N :
    ( /\ rev = "main" /\ h[i].text # <<>>
      /\ Ended(i) /\ h[i].answer = "unparseable" /\ apiKey /\ h[i].nGoogle = 3
      /\ Len(FailedLangs(i)) = 1
      /\ \A l \in LangSet : IsStr(h[i].translations[l])
      /\ NoHintNoEcho(i) )
    => h[i].sent =
         <<LinesOf(h[i].translations,
                   SelectSeq(targetLangs,
                             LAMBDA l : h[i].translations[l] \notin
                                          {Str(ph) : ph \in Placeholders}))>>

\* every language holds a translation that is no placeholder
AllTranslated(i) ==
  \A l \in LangSet :
    /\ IsStr(h[i].translations[l])
    /\ h[i].translations[l].s \notin Placeholders

\* C8 as stated: a valid primary response (its detected language a text
\* or absent) with every language present and different from the input
\* gives the three lines in the configured order
C8_RoundTripAsStated ==
  \A i \in 1..N :
    ( /\ rev = "main" /\ h[i].text # <<>>
      /\ Ended(i) /\ h[i].success = "yes" /\ AllTranslated(i)
      /\ h[i].sourceLang = JNull \/ IsStr(h[i].sourceLang)
      /\ \A l \in LangSet : h[i].translations[l].s # h[i].text )
    => h[i].sent = <<LinesOf(h[i].translations, targetLangs)>>

\* the hint selects no target language in step B of the filter
HintSelectsNoTarget(v) ==
  \/ ~Truthy(v)
  \/ /\ IsStr(v)
     /\ ToLowerCase(v.s) \notin {<<"z","h">>, <<"z","h","-","c","n">>}
     /\ \A l \in LangSet : ~StartsWith(ToLowerCase(l), ToLowerCase(v.s))

\* C8 amended: a valid primary response in which every language holds a
\* non-empty trimmed text without failure marker, different from the input
\* after normalisation, and whose detected language is absent or selects no
\* target language, gives the three lines once each in the configured order
C8_RoundTrip ==
  \A i \in 1..N :
    ( /\ Ended(i) /\ h[i].success = "yes" /\ AllTranslated(i)
      /\ \A l \in LangSet :
           /\ h[i].translations[l].s # <<>>
           /\ ~Includes(h[i].translations[l].s, MarkFailed)
           /\ ~Includes(h[i].translations[l].s, MarkError)
           /\ normalize(h[i].translations[l].s) # normalize(h[i].text)
      /\ HintSelectsNoTarget(h[i].sourceLang) )
    => h[i].sent = <<LinesOf(h[i].translations, targetLangs)>>

C8_Witness ==
  \E i \in 1..N :
    /\ h[i].pc = "done" /\ h[i].success = "yes" /\ h[i].text = TextHello
    /\ h[i].translations = TrFull
    /\ h[i].sent = << <<"FLAG_TW", " ">> \o NiHao \o <<"LF", "LF">>
                      \o <<"FLAG_US", " ">> \o Hi \o <<"LF", "LF">>
                      \o <<"FLAG_ID", " ">> \o Halo >>

\* C9: the acknowledgment precedes the processing of any event, stays sent
\* whatever the handlers do, and no rejection of a handler escapes the catch
C9_AckFirst ==
  /\ wpc # "recv" => acked
  /\ \A i \in 1..N : h[i].pc # "idle" => acked
  /\ \A i \in 1..N :
       h[i].pc = "failed" => (i \in errlog \/ (rev = "openai" /\ errlog # {}))
  /\ ~transportError

C9_Witness ==
  /\ acked
  /\ \E i, j \in 1..N : Threw(i) /\ i \in errlog /\ h[j].pc = "done" /\ h[j].sent # <<>>

\* no step of the route or of a handler is pending
Quiescent ==
  /\ wpc \in {"dispatched", "finished", "aborted"}
  /\ \A i \in 1..N : h[i].pc \in {"idle", "done", "failed"}

\* C10: when one event of a batch failed, every other text event of the
\* batch has still been handled by the time nothing is pending
C10_FailureIsolated ==
  \A i, j \in 1..N :
    ( /\ Quiescent /\ i # j /\ h[i].pc = "failed" /\ h[i].text # <<>>
      /\ IsText(j) /\ Trim(events[j].text) # <<>> )
    => h[j].pc \in {"done", "failed"}

\* translateWithGemini has returned to the handler of event i
GeminiReturned(i) == h[i].success # "none"

\* a value that is a text, not empty and no failure placeholder
IsTranslation(v) == IsStr(v) /\ v.s # <<>> /\ v.s \notin Placeholders

\* C11: translateWithGemini returns success = true only if some language
\* holds a non-failed, non-empty translation, and success = false makes
\* handleEvent take the fallback branch
C11_SuccessNeedsOneTranslation ==
  \A i \in 1..N :
    (rev = "main" /\ h[i].text # <<>>) =>
      /\ h[i].success = "yes" => \E l \in LangSet : IsTranslation(h[i].primary[l])
      /\ h[i].success = "no" => h[i].fallback

\* C12: the outcome translateWithGemini returned and the translations
\* handleEvent filters (the outcome of translateWithGemini or of
\* translateWithGoogle) have an entry for each of zh-TW, en and id and no
\* other key, on every return path
C12_OneEntryPerLanguage ==
  \A i \in 1..N :
    /\ DOMAIN h[i].primary = LangSet
    /\ DOMAIN h[i].translations = LangSet
    /\ GeminiReturned(i) => \A l \in LangSet : h[i].primary[l] # JUndef
    /\ (rev \in {"main", "retry"} /\ IsText(i) /\ Ended(i)) =>
         \A l \in LangSet : h[i].translations[l] # JUndef

\* the fallback ran with hint en: en short-circuited, two fetches made
C12_Witness ==
  \E i \in 1..N :
    /\ h[i].pc = "done" /\ h[i].fallback /\ apiKey /\ h[i].sourceLang = Str(en)
    /\ h[i].nGoogle = 2 /\ h[i].translations[en] = Str(h[i].text)
    /\ h[i].primary = [l \in LangSet |-> Str(GeminiError)]

\* C13: a rejected call, a text no parse accepts and a parsed value the
\* validation rejects all end inside translateWithGemini: it returns
\* success = false with a failure value for every language, and handleEvent
\* goes on to the fallback branch
C13_GeminiFailureIsCaught ==
  \A i \in 1..N :
    (rev \in {"main", "retry"} /\ h[i].answer \in {"error", "unparseable", "invalid"}) =>
      /\ h[i].success = "no"
      /\ \A l \in LangSet : h[i].primary[l] = Str(GeminiError)
      /\ h[i].fallback

\* the validation rejected the answer and the fallback gave the reply
C13_Witness ==
  \E i \in 1..N :
    /\ h[i].answer = "invalid" /\ h[i].success = "no" /\ h[i].pc = "done"
    /\ h[i].nGoogle = 3 /\ Len(h[i].sent) = 1

\* the answer carries no detection: the fetch rejected, the body is null or
\* an error payload, or the payload has no language
NoDetection(d) ==
  d.kind \in {"reject", "null", "error"} \/ (d.kind = "data" /\ d.text = JUndef)

\* C14: detectLanguageGoogle returns a falsy value when the backend is not
\* configured, when the request fails and when the payload carries no
\* detection, and handleEvent goes on with translateWithGoogle
C14_DetectNeverThrows ==
  \A i \in 1..N :
    (rev \in {"main", "retry"} /\ h[i].fallback /\ h[i].pc # "detect") =>
      /\ ~apiKey => /\ h[i].sourceLang = JNull
                    /\ h[i].translations = GoogleNotConfigured
      /\ (apiKey /\ NoDetection(h[i].detected)) =>
           /\ ~Truthy(h[i].sourceLang)
           /\ h[i].nGoogle >= 1
           /\ h[i].pc = "google" \/ h[i].nGoogle = Len(targetLangs)

\* the fetch of the detector rejected and the three languages were
\* translated all the same
C14_Witness ==
  \E i \in 1..N :
    /\ apiKey /\ h[i].detected.kind = "reject" /\ h[i].sourceLang = JNull
    /\ h[i].pc = "done" /\ h[i].nGoogle = 3 /\ Len(h[i].sent) = 1

\* C15: in translateWithGoogle each language that was fetched holds the
\* translated text of its own answer, or a failure value when its own fetch
\* failed, whatever the fetches of the other languages did; and when the
\* loop is over every language was fetched or short-circuited
C15_GoogleFailureIsolated ==
  \A i \in 1..N :
    (rev \in {"main", "retry"} /\ h[i].fallback /\ apiKey /\ h[i].pc # "detect") =>
      /\ \A l \in LangSet :
           h[i].gresp[l] # NoAnswer =>
             IF h[i].gresp[l].kind = "data" /\ Truthy(h[i].gresp[l].text)
             THEN h[i].translations[l] = h[i].gresp[l].text
             ELSE h[i].translations[l] \in {Str(ph) : ph \in Placeholders}
      /\ h[i].pc # "google" =>
           \A l \in LangSet :
             \/ h[i].gresp[l] # NoAnswer
             \/ Truthy(h[i].sourceLang) /\ h[i].translations[l] = Str(h[i].text)

\* the fetch for en rejected between two fetches that gave a translation
C15_Witness ==
  \E i \in 1..N :
    /\ h[i].pc = "done" /\ h[i].gresp[en].kind = "reject"
    /\ h[i].translations[zhTW] = Str(NiHao) /\ h[i].translations[id] = Str(Halo)
    /\ h[i].translations[en] \in {Str(ph) : ph \in Placeholders}
    /\ Len(h[i].sent) = 1

\* the filter of the revision threw on no language and kept none
NothingKept(i) ==
  IF rev = "flat"
  THEN /\ \A l \in LangSet : FlatFilterStep(h[i].translations[l], h[i].text) # "throw"
       /\ FlatKeptLangs(h[i].translations, h[i].text) = <<>>
  ELSE /\ \A l \in LangSet :
            FilterStep(rev, h[i].translations[l], h[i].sourceLang, h[i].text, l) # "throw"
       /\ KeptLangs(rev, h[i].translations, h[i].sourceLang, h[i].text) = <<>>

\* C16 as stated: when the filter keeps no language the reply is the
\* sentinel text
C16_SentinelWhenNothingKept ==
  \A i \in 1..N :
    (rev = "main" /\ IsText(i) /\ h[i].text # <<>> /\ Ended(i) /\ NothingKept(i)) =>
      h[i].sent = <<Sentinel>>

\* C16 amended: handleEvent never passes an empty text to replyMessage;
\* when the filter keeps no language, the handler of src/server.js (and of
\* the retry revision) sends no reply at all and the handler of the flat
\* revision sends the sentinel text
C16_NoEmptyReply ==
  \A i \in 1..N :
    (rev \in {"main", "retry", "flat"} /\ IsText(i)) =>
      /\ \A k \in 1..Len(h[i].sent) : h[i].sent[k] # <<>>
      /\ (Ended(i) /\ NothingKept(i)) =>
           h[i].sent = (IF rev = "flat" THEN <<Sentinel>> ELSE <<>>)

\* every language of the answer repeats the input: the flat revision
\* replied with the sentinel
C16_Witness ==
  \E i \in 1..N :
    /\ rev = "flat" /\ h[i].pc = "done" /\ h[i].text = TextHello
    /\ h[i].translations = TrCase /\ h[i].sent = <<Sentinel>>

RECURSIVE PrimarySubtag(_)
\* the language of a code: its part before the first hyphen, in lower case
PrimarySubtag(code) ==
  IF code = <<>> \/ Head(code) = "-" THEN <<>>
  ELSE <<LowerChar(Head(code))>> \o PrimarySubtag(Tail(code))

\* the hint and the target denote the same language
SameLanguage(lang, hint) ==
  PrimarySubtag(hint) # <<>> /\ PrimarySubtag(lang) = PrimarySubtag(hint)

\* C17: when the hint is known, the reply has no line for a target language
\* that is the same language as the hint: bare hint against region-qualified
\* target, region-qualified hint against bare target, any zh-family hint
\* against zh-TW
C17_SameLanguageDropped ==
  \A i \in 1..N : \A k \in 1..Len(h[i].sent) :
    (rev = "main" /\ h[i].text # <<>> /\ IsStr(h[i].sourceLang)) =>
      \A l \in LangSet :
        SameLanguage(l, h[i].sourceLang.s) => ~HasLineFor(h[i].sent[k], l)

\* the position of a language in targetLangs
IndexOf(l) == CHOOSE k \in 1..Len(targetLangs) : targetLangs[k] = l

\* the loop of translateWithGoogle is past language l
PastLanguage(i, l) == h[i].pc # "google" \/ h[i].gi > IndexOf(l)

C19_PerLanguageRecording ==
  \A i \in 1..N :
    (rev \in {"main", "retry"} /\ h[i].answer = "valid") =>
      /\ h[i].success = "yes"
      /\ \A l \in LangSet :
           LET t == h[i].parsedTr[l]
           IN  IF IsStr(t) /\ t.s # <<>>
               THEN /\ IsStr(h[i].primary[l])
                    /\ Trim(t.s) = h[i].primary[l].s
                    /\ h[i].translations[l] = h[i].primary[l]
               ELSE h[i].primary[l] = Str(GeminiLangFailed)

\* zh-TW translated, en a number and id missing
C19_Witness ==
  \E i \in 1..N :
    /\ h[i].parsedTr = TrPartial /\ h[i].pc = "done" /\ h[i].success = "yes"
    /\ h[i].primary[zhTW] = Str(NiHao)
    /\ h[i].primary[en] = Str(GeminiLangFailed)
    /\ h[i].primary[id] = Str(GeminiLangFailed)

\* C20: no reply has a line for a language whose result text equals the
\* input text after case folding and removal of every character that is no
\* letter and no digit
C20_NormalizedEchoDropped ==
  \A i \in 1..N : \A k \in 1..Len(h[i].sent) :
    (rev = "flat" /\ h[i].text # <<>>) =>
      \A l \in LangSet :
        ( /\ IsStr(h[i].translations[l])
          /\ normalize(h[i].translations[l].s) = normalize(h[i].text) )
        => ~HasLineFor(h[i].sent[k], l)

\* the text is valid structured data for the three languages, without
\* detected language, wrapped in fenced-code markers
FencedValid(resp, r) ==
  /\ resp.kind = "text" /\ Len(resp.raw) = 5
  /\ resp.raw[1].seg = "fence_json" /\ resp.raw[5].seg = "fence"
  /\ resp.raw[2].seg = "ws" /\ resp.raw[4].seg = "ws"
  /\ resp.raw[3].seg = "json" /\ resp.raw[3].val.top = "object"
  /\ ~Truthy(resp.raw[3].val.detected_lang)
  /\ LET v == IF r = "flat" THEN resp.raw[3].val.flat ELSE resp.raw[3].val.tr
     IN  \A l \in LangSet :
           /\ IsTranslation(v[l]) /\ Trim(v[l].s) # <<>>
           /\ ~Includes(v[l].s, MarkFailed) /\ ~Includes(v[l].s, MarkError)

\* the strategies of the chain: the direct parse, the parse after removal
\* of the fence markers, the parse of the span from the first opening brace
\* to the last closing brace
DirectOk(raw) == JsonParse(raw).ok
StrippedOk(raw) ==
  JsonParse(SelectSeq(raw, LAMBDA g : g.seg \notin {"fence_json", "fence"})).ok
BracesOk(raw) == BraceMatch(raw) # <<>> /\ JsonParse(BraceMatch(raw)).ok

\* the echo test of the revision
IsEcho(r, result, text) ==
  IF r = "flat" THEN ToLowerCase(Trim(result)) = ToLowerCase(Trim(text))
  ELSE normalize(result) = normalize(text)

SelfReported(i) == ParseResponse(h[i].response.raw).val.detected_lang

\* C22 as stated: when the primary translator succeeded, the hint passed to
\* the filter is the self-reported language when there is one, and otherwise
\* the result of the language detector for the same text
C22_HintFromDetectorOtherwise ==
  \A i \in 1..N :
    (rev = "main" /\ h[i].success = "yes" /\ h[i].text # <<>>) =>
      IF Truthy(SelfReported(i)) THEN h[i].sourceLang = SelfReported(i)
      ELSE /\ h[i].nDetect >= 1
           /\ h[i].sourceLang = DetectValue(rev, h[i].detected)

\* C22: when the primary translator succeeded, the hint passed to the filter
\* is the self-reported language when there is one and null otherwise; the
\* language detector is not called for that event at all
C22_HintAfterSuccess ==
  \A i \in 1..N :
    (rev \in {"main", "retry"} /\ h[i].success = "yes") =>
      /\ h[i].sourceLang = IF Truthy(SelfReported(i)) THEN SelfReported(i) ELSE JNull
      /\ h[i].nDetect = 0
      /\ h[i].detected = NoAnswer

C22_Witness ==
  \E i \in 1..N :
    /\ rev = "main" /\ h[i].pc = "done" /\ h[i].success = "yes"
    /\ h[i].text = TextHello
    /\ SelfReported(i) = Str(en)
    /\ h[i].sourceLang = Str(en)
    /\ h[i].sent = <<LinesOf(h[i].translations, <<zhTW, id>>)>>

(***************************************************************************)
(* C23.  The order of the steps of one event.                              *)
(***************************************************************************)
\* the backend calls the activation hr has made, and those that have settled
Issued(hr) == hr.nGemini + hr.nDetect + hr.nGoogle
Answered(hr) ==
  Len(hr.retries) + (IF hr.response # NoResponse THEN 1 ELSE 0)
  + (IF hr.detected # NoAnswer THEN 1 ELSE 0)
  + Cardinality({l \in LangSet : hr.gresp[l] # NoAnswer})
InFlight(hr) == Issued(hr) - Answered(hr)

Pipelines == {"main", "retry", "flat"}

\* C23 as stated: the language detector is called before the primary
\* translator on every non-empty input, the secondary translator only after
\* the primary has returned, the reply only after every translation call has
\* returned, and no two backend calls of one event are in flight at once
C23_DetectThenTranslate ==
  \A i \in 1..N :
    (rev \in Pipelines /\ h[i].text # <<>>) =>
      /\ h[i].nGemini >= 1 => (h[i].nDetect >= 1 /\ h[i].detected # NoAnswer)
      /\ h[i].nGoogle >= 1 => h[i].response # NoResponse
      /\ h[i].sent # <<>> => InFlight(h[i]) = 0
      /\ InFlight(h[i]) \in {0, 1}

\* C23: in handleEvent the primary translator is called first; the language
\* detector is called only after the primary has returned a failure, the
\* secondary translator only after the detector has returned, the reply is
\* sent only when every backend call of the event has returned, every step
\* starts at most one backend call and at most one is in flight at any time
C23_Order ==
  /\ [](\A i \in 1..N :
          rev \in Pipelines =>
            /\ InFlight(h[i]) \in {0, 1}
            /\ InFlight(h[i]) = 1 <=> h[i].pc \in {"gemini", "detect", "google"}
            /\ h[i].nDetect >= 1 => (h[i].response # NoResponse /\ h[i].success = "no")
            /\ h[i].nDetect <= 1
            /\ h[i].nGoogle >= 1 => (h[i].nDetect = 1 /\ h[i].detected # NoAnswer)
            /\ h[i].sent # <<>> => (InFlight(h[i]) = 0 /\ h[i].response # NoResponse)
            /\ (IsText(i) /\ h[i].pc # "idle") => h[i].nGemini >= 1)
  /\ [][\A i \in 1..N :
          rev \in Pipelines =>
            /\ Issued(h'[i]) \in {Issued(h[i]), Issued(h[i]) + 1}
            /\ Answered(h'[i]) \in {Answered(h[i]), Answered(h[i]) + 1}
            /\ h'[i].sent # h[i].sent => InFlight(h'[i]) = 0]_vars

C23_Witness ==
  \E i \in 1..N :
    /\ rev = "main" /\ h[i].pc = "done" /\ h[i].text = TextHello
    /\ h[i].nGemini = 1 /\ h[i].nDetect = 1 /\ h[i].nGoogle = 3
    /\ Answered(h[i]) = 5
    /\ Len(h[i].sent) = 1

(***************************************************************************)
(* C24.  The order of the reply lines.                                     *)
(***************************************************************************)
\* the positions of a reply text where a line starts
LineStarts(text) ==
  {p \in 1..Len(text) : p = 1 \/ (p > 2 /\ text[p - 1] = "LF" /\ text[p - 2] = "LF")}

\* the place of a flag in the configured order, 0 when it is no flag of a
\* target language
FlagPlace(c) ==
  IF \E k \in 1..Len(targetLangs) : flagMap[targetLangs[k]] = c
  THEN CHOOSE k \in 1..Len(targetLangs) : flagMap[targetLangs[k]] = c
  ELSE 0

\* C24: the lines of a reply of handleEvent start with the flags of target
\* languages, in the configured order zh-TW, en, id: no language comes
\* twice, none out of order and none from outside the configured set
C24_ReplyOrder ==
  \A i \in 1..N :
    (rev \in {"main", "retry"} /\ Len(h[i].sent) >= 1) =>
      LET text == h[i].sent[1]
      IN  /\ \A p \in LineStarts(text) : FlagPlace(text[p]) >= 1
          /\ \A p, q \in LineStarts(text) :
               p < q => FlagPlace(text[p]) < FlagPlace(text[q])
          /\ \A l \in LangSet :
               HasLineFor(text, l) <=>
                 FilterStep(rev, h[i].translations[l], h[i].sourceLang, h[i].text, l) = "keep"

C24_Witness ==
  \E i \in 1..N :
    /\ rev = "main" /\ h[i].pc = "done" /\ h[i].fallback
    /\ h[i].sourceLang = Str(en) /\ h[i].nGoogle = 2
    /\ Len(h[i].sent) = 1
    /\ Cardinality(LineStarts(h[i].sent[1])) = 2
    /\ HasLineFor(h[i].sent[1], zhTW) /\ HasLineFor(h[i].sent[1], id)

(***************************************************************************)
(* C25.  The retry loop of translateWithGemini, src/unnamed/part_002.      *)
(***************************************************************************)
\* C25 as stated: one call of translateWithGemini calls the backend at most
\* three times, an attempt is repeated only after it failed with a transient
\* error of the backend (a rejected call), a failure of any other kind ends
\* the call after that single attempt, and a success ends it at once
C25_RetryOnlyAfterTransient ==
  \A i \in 1..N :
    (rev = "retry" /\ h[i].text # <<>>) =>
      /\ h[i].nGemini <= maxRetries
      /\ \A k \in 1..Len(h[i].retries) : h[i].retries[k].after = "error"
      /\ h[i].success = "yes" => h[i].pc \notin {"gemini", "sleep"}

(***************************************************************************)
(* C26.  The delay before a retry.                                         *)
(***************************************************************************)
\* C26 as stated: the delay waited before a retry is the same before the
\* second attempt and before the third attempt
C26_FixedDelay ==
  \A i \in 1..N :
    rev = "retry" =>
      \A j, k \in 1..Len(h[i].retries) : h[i].retries[j].wait = h[i].retries[k].wait

\* C26: the delay waited before a retry grows with the attempt number: it is
\* 1000 ms times the number of the attempt that failed, 1000 ms before the
\* second attempt and 2000 ms before the third
C26_DelayGrows ==
  \A i \in 1..N :
    rev = "retry" =>
      /\ \A k \in 1..Len(h[i].retries) : h[i].retries[k].wait = k * 1000
      /\ h[i].pc = "sleep" =>
           /\ h[i].waitTime = h[i].attempt * 1000
           /\ Len(h[i].retries) = h[i].attempt
      /\ Len(h[i].retries) <= maxRetries - 1

C26_Witness ==
  \E i \in 1..N :
    /\ rev = "retry" /\ h[i].pc = "gemini" /\ h[i].attempt = 3
    /\ Len(h[i].retries) = 2
    /\ h[i].retries[1].wait = 1000 /\ h[i].retries[2].wait = 2000

(***************************************************************************)
(* C27.  Handlers of distinct events running concurrently.                 *)
(***************************************************************************)
\* the answers the backends gave to the calls of the activation hr
AnswersOf(hr) == <<hr.retries, hr.response, hr.detected, hr.gresp>>

\* C27: under every interleaving of the handlers of a batch, a step of one
\* handler changes the locals and the replies of its own event only and
\* never the configuration, and the reply sent for an event is a function of
\* that event's text and of the answers the backends gave to that event's
\* calls: two events with the same text and the same answers get the same
\* reply, whatever the other handlers did meanwhile
C27_Isolation ==
  /\ [][/\ rev' = rev /\ apiKey' = apiKey /\ events' = events
        /\ wpc # "acked" => Cardinality({j \in 1..N : h'[j] # h[j]}) <= 1]_vars
  /\ [](\A i, j \in 1..N :
          (/\ rev \in Pipelines
           /\ Ended(i) /\ Ended(j)
           /\ events[i] = events[j]
           /\ AnswersOf(h[i]) = AnswersOf(h[j])) =>
            /\ h[i].sent = h[j].sent
            /\ h[i].translations = h[j].translations)
  /\ [](\A i \in 1..N :
          (rev = "main" /\ Ended(i) /\ IsText(i)) =>
            LET f == Finish(rev, h[i].translations, h[i].sourceLang, Trim(events[i].text))
            IN  h[i].sent = IF f.out = "reply" THEN <<f.text>> ELSE <<>>)

C27_Witness ==
  /\ rev = "main" /\ N = 2
  /\ IsText(1) /\ IsText(2)
  /\ h[1].pc = "gemini"
  /\ h[2].pc = "done" /\ Len(h[2].sent) = 1 /\ h[2].fallback

(***************************************************************************)
(* C28.  Every path through the retry loop returns an outcome.             *)
(***************************************************************************)
\* C28: translateWithGemini of the retry revision never makes more than
\* maxRetries attempts and sleeps only when another attempt is left, so the
\* loop is never left by falling through: once the call is over, handleEvent
\* holds an outcome whose success is true or false, true only for an answer
\* the validation accepted, and a failure outcome takes the fallback branch
C28_LoopReturnsOutcome ==
  \A i \in 1..N :
    (rev = "retry" /\ IsText(i)) =>
      /\ h[i].attempt <= maxRetries
      /\ h[i].nGemini = h[i].attempt
      /\ h[i].pc = "sleep" => h[i].attempt < maxRetries
      /\ h[i].pc \notin {"idle", "gemini", "sleep"} =>
           /\ h[i].success \in {"yes", "no"}
           /\ h[i].success = "yes" <=> h[i].answer = "valid"
           /\ h[i].success = "no" <=> h[i].fallback
           /\ h[i].response # NoResponse
           /\ Answered(h[i]) >= h[i].nGemini

C28_Witness ==
  \E i \in 1..N :
    /\ rev = "retry" /\ h[i].pc = "done"
    /\ h[i].attempt = maxRetries /\ Len(h[i].retries) = 2
    /\ h[i].response = GErr(TRUE)
    /\ h[i].success = "no" /\ h[i].fallback /\ h[i].nGoogle >= 1

(***************************************************************************)
(* C29.  Events that are no text message.                                  *)
(***************************************************************************)
\* C29: for an event that is no text message handleEvent returns at once:
\* it calls no translator and no detector, sends no reply and logs no
\* error, whatever the handlers of the other events of the batch do
C29_OtherEventsIgnored ==
  \A i \in 1..N :
    (rev \in Pipelines /\ ~IsText(i)) =>
      /\ h[i].pc \in {"idle", "done"}
      /\ wpc = "dispatched" => h[i].pc = "done"
      /\ Issued(h[i]) = 0 /\ Answered(h[i]) = 0
      /\ h[i].sent = <<>>
      /\ i \notin errlog
      /\ [h[i] EXCEPT !.pc = "idle"] = Idle

C29_Witness ==
  /\ rev = "main" /\ N = 2
  /\ ~IsText(1) /\ IsText(2)
  /\ h[1].pc = "done" /\ h[1].sent = <<>> /\ Issued(h[1]) = 0
  /\ h[2].pc = "done" /\ Len(h[2].sent) = 1

=============================================================================
